---- MODULE Spec2Model ----
(***************************************************************************)
(* Model of src/knapsack/solver.c: main loads "N C" and N lines "V W"     *)
(* into a flat N x 3 int array, dp_knapsack fills a flat (N+1) x (C+1)    *)
(* table of optimal values, dp_backtrace marks the chosen objects and     *)
(* dp_print writes the solution.                                          *)
(***************************************************************************)
EXTENDS Integers, Sequences, FiniteSets

VARIABLES pc, argc, fp, input, pos, n, capacity, objs, objsPtr,
          vals, valsPtr, cells, i, k, bt_i, bt_k, out, err, exitCode, fault

vars == <<pc, argc, fp, input, pos, n, capacity, objs, objsPtr,
          vals, valsPtr, cells, i, k, bt_i, bt_k, out, err, exitCode, fault>>

----------------------------------------------------------------------------
(* Bounds of the model *)

MaxN == 2
MaxC == 3
MaxVal == 2
MaxWeight == 2
MaxBadLen == 4
IntBits == 6

----------------------------------------------------------------------------
(* The C type int, scaled to IntBits bits, and size_t comparisons *)

RECURSIVE Pow2(_)
Pow2(e) == IF e = 0 THEN 1 ELSE 2 * Pow2(e - 1)

INT_MAX == Pow2(IntBits - 1) - 1
INT_MIN == 0 - Pow2(IntBits - 1)
IntRange == INT_MIN..INT_MAX
InInt(x) == x >= INT_MIN /\ x <= INT_MAX

\* size_t values are kept as integers: x >= 0 is itself and x < 0 stands
\* for SIZE_MAX + 1 + x, which is also what an int converts to. a < b and
\* a <= b on size_t:
SizeLt(a, b) == IF (a < 0) = (b < 0) THEN a < b ELSE b < 0
SizeLe(a, b) == IF (a < 0) = (b < 0) THEN a <= b ELSE b < 0

\* (n+1) * (c+1) in int arithmetic; a signed overflow is undefined, so any
\* int may come out.
CellCount(nn, cc) ==
    LET a == nn + 1
        b == cc + 1
        p == a * b
    IN IF InInt(a) /\ InInt(b) /\ InInt(p) THEN {p} ELSE IntRange

\* i*(c+1) + k, the offset of cell (i, k) in the flat table
Index(ii, cc, kk) == ii * (cc + 1) + kk

----------------------------------------------------------------------------
(* The input file as a sequence of whitespace-separated tokens *)

Tok(v) == [num |-> TRUE, val |-> v]
Junk == [num |-> FALSE, val |-> 0]

ItemSet == (0..MaxVal) \X (0..MaxWeight)

FileOf(nn, cc, items) ==
    [j \in 1..(2 + 2 * nn) |->
        IF j = 1 THEN Tok(nn)
        ELSE IF j = 2 THEN Tok(cc)
        ELSE IF j % 2 = 1 THEN Tok(items[(j - 1) \div 2][1])
        ELSE Tok(items[(j - 2) \div 2][2])]

WellFormed(f) ==
    /\ Len(f) >= 2
    /\ f[1].num /\ f[1].val >= 0
    /\ f[2].num /\ f[2].val >= 0
    /\ Len(f) >= 2 + 2 * f[1].val
    /\ \A j \in 3..(2 + 2 * f[1].val) : f[j].num /\ f[j].val >= 0

WellFormedFiles ==
    UNION { { FileOf(nn, cc, items) : items \in [1..nn -> ItemSet] } :
            <<nn, cc>> \in (0..MaxN) \X (0..MaxC) }

BadTokens == {Tok(0 - 1), Tok(0), Tok(1), Junk}

MalformedFiles ==
    { f \in UNION { [1..len -> BadTokens] : len \in 0..MaxBadLen } :
        ~WellFormed(f) }

Files == WellFormedFiles \cup MalformedFiles

\* values an uninitialised int may hold
GarbageInts == {0 - 1, 0, 1}

\* the conversion %d at token position p succeeds
CanScan(f, p) == p <= Len(f) /\ f[p].num

----------------------------------------------------------------------------
(* Memory accesses *)

ZerosMut(count) == [j \in 0..(count - 1) |-> 1]

\* calloc: every element starts as 0
Zeros(count) == [j \in 0..(count - 1) |-> 0]

ValidObjs(idx) == objsPtr = "heap" /\ idx \in DOMAIN objs
ValidVals(idx) == valsPtr = "heap" /\ idx \in DOMAIN vals

\* An access through a null pointer or outside the allocation, or a signed
\* overflow, is undefined: the process is killed, or it goes on in an
\* arbitrary way.
Undefined(what) ==
    /\ fault' = what
    /\ pc' \in {"crashed", "undefined"}
    /\ UNCHANGED <<argc, fp, input, pos, n, capacity, objs, objsPtr, vals,
                   valsPtr, cells, i, k, bt_i, bt_k, out, err, exitCode>>

----------------------------------------------------------------------------
(* main *)

Init ==
    /\ pc = "main"
    /\ argc \in 1..3
    /\ fp = "unset"
    /\ input = <<>>
    /\ pos = 1
    /\ n = 0
    /\ capacity = 0
    /\ objs = <<>>
    /\ objsPtr = "unset"
    /\ vals = <<>>
    /\ valsPtr = "unset"
    /\ cells = 0
    /\ i = 0
    /\ k = 0
    /\ bt_i = 0
    /\ bt_k = 0
    /\ out = <<>>
    /\ err = FALSE
    /\ exitCode = 0
    /\ fault = "none"

\* if (argc == 2) { ... } and otherwise control falls off the end of main
Main ==
    /\ pc = "main"
    /\ IF argc = 2
          THEN pc' = "fopen" /\ UNCHANGED exitCode
          ELSE pc' = "done" /\ exitCode' = 0
    /\ UNCHANGED <<argc, fp, input, pos, n, capacity, objs, objsPtr, vals,
                   valsPtr, cells, i, k, bt_i, bt_k, out, err, fault>>

\* fp = fopen(filename, "rb"); if (fp == NULL) { perror(...); return -1; }
Fopen ==
    /\ pc = "fopen"
    /\ \/ /\ fp' = "null"
          /\ err' = TRUE
          /\ exitCode' = 0 - 1
          /\ pc' = "done"
          /\ UNCHANGED <<input, pos>>
       \/ /\ fp' = "open"
          /\ \E f \in Files : input' = f
          /\ pos' = 1
          /\ pc' = "scan_header"
          /\ UNCHANGED <<err, exitCode>>
    /\ UNCHANGED <<argc, n, capacity, objs, objsPtr, vals, valsPtr, cells,
                   i, k, bt_i, bt_k, out, fault>>

\* fscanf(fp, "%d %d\n", &n, &capacity); the result is not checked, and an
\* int that was not assigned keeps its uninitialised value
ScanHeader ==
    /\ pc = "scan_header"
    /\ LET ok1 == CanScan(input, pos)
           ok2 == ok1 /\ CanScan(input, pos + 1)
       IN /\ \E g \in GarbageInts : n' = IF ok1 THEN input[pos].val ELSE g
          /\ \E g \in GarbageInts :
                capacity' = IF ok2 THEN input[pos + 1].val ELSE g
          /\ pos' = pos + (IF ok1 THEN 1 ELSE 0) + (IF ok2 THEN 1 ELSE 0)
    /\ pc' = "alloc_objs"
    /\ UNCHANGED <<argc, fp, input, objs, objsPtr, vals, valsPtr, cells,
                   i, k, bt_i, bt_k, out, err, exitCode, fault>>

\* objs = calloc(n * 3, sizeof(int)); the result is not checked. A negative
\* n * 3 converts to a huge size_t, which calloc cannot satisfy.
AllocObjs ==
    /\ pc = "alloc_objs"
    /\ \E p \in (IF n < 0 THEN {"null"} ELSE {"null", "heap"}) :
          /\ objsPtr' = p
          /\ objs' = IF p = "heap" THEN Zeros(n * 3) ELSE <<>>
    /\ i' = 0
    /\ pc' = "load"
    /\ UNCHANGED <<argc, fp, input, pos, n, capacity, vals, valsPtr, cells,
                   k, bt_i, bt_k, out, err, exitCode, fault>>

\* for (size_t i = 0; i < n; i++)
\*     fscanf(fp, "%d %d\n", &objs[i*3], &objs[i*3 + 1]);
LoadItem ==
    /\ pc = "load"
    /\ SizeLt(i, n)
    /\ LET ok1 == CanScan(input, pos)
           ok2 == ok1 /\ CanScan(input, pos + 1)
       IN IF ok1 /\ ~ValidObjs(i * 3)
            THEN Undefined("objs")
            ELSE /\ objs' = IF ok2
                              THEN [objs EXCEPT ![i * 3] = input[pos].val,
                                         ![i * 3 + 1] = input[pos + 1].val]
                            ELSE IF ok1
                              THEN [objs EXCEPT ![i * 3] = input[pos].val]
                            ELSE objs
                 /\ pos' = pos + (IF ok1 THEN 1 ELSE 0)
                               + (IF ok2 THEN 1 ELSE 0)
                 \* with n < 0 and nothing left to convert, the iterations
                 \* change nothing but i, which counts up to (size_t)n
                 /\ i' = IF n < 0 THEN n ELSE i + 1
                 /\ UNCHANGED <<pc, argc, fp, input, n, capacity, objsPtr,
                                vals, valsPtr, cells, k, bt_i, bt_k, out,
                                err, exitCode, fault>>

\* fclose(fp); dp_knapsack(n, capacity, objs);
LoadDone ==
    /\ pc = "load"
    /\ ~SizeLt(i, n)
    /\ fp' = "closed"
    /\ pc' = "dp_knapsack"
    /\ UNCHANGED <<argc, input, pos, n, capacity, objs, objsPtr, vals,
                   valsPtr, cells, i, k, bt_i, bt_k, out, err, exitCode,
                   fault>>

----------------------------------------------------------------------------
(* dp_knapsack *)

TooHeavyMut(kk, w) == SizeLe(kk, w)

\* if (k < w): the object does not fit in capacity k (k is a size_t)
TooHeavy(kk, w) == SizeLt(kk, w)

BestMut(excl, incl) == incl

\* excl >= incl ? excl : incl
Best(excl, incl) == IF excl >= incl THEN excl ELSE incl

\* vals = calloc((n+1) * (c+1), sizeof(int)); the result is not checked
DpAlloc ==
    /\ pc = "dp_knapsack"
    /\ \E cnt \in CellCount(n, capacity) :
         \E p \in (IF cnt < 0 THEN {"null"} ELSE {"null", "heap"}) :
            /\ cells' = cnt
            /\ valsPtr' = p
            /\ vals' = IF p = "heap" THEN Zeros(cnt) ELSE <<>>
    /\ i' = 1
    /\ k' = 0
    /\ pc' = "fill"
    /\ UNCHANGED <<argc, fp, input, pos, n, capacity, objs, objsPtr,
                   bt_i, bt_k, out, err, exitCode, fault>>

\* the body of the two loops: one cell of the table
FillCell ==
    /\ pc = "fill"
    /\ SizeLe(i, n)
    /\ SizeLe(k, capacity)
    /\ IF ~(ValidObjs((i - 1) * 3) /\ ValidObjs((i - 1) * 3 + 1))
         THEN Undefined("objs")
         ELSE LET v == objs[(i - 1) * 3]
                  w == objs[(i - 1) * 3 + 1]
                  cur == Index(i, capacity, k)
                  excl == Index(i - 1, capacity, k)
                  incl == Index(i - 1, capacity, k - w)
              IN IF TooHeavy(k, w)
                   THEN IF ~(ValidVals(cur) /\ ValidVals(excl))
                          THEN Undefined("vals")
                          ELSE /\ vals' = [vals EXCEPT ![cur] = vals[excl]]
                               /\ k' = k + 1
                               /\ UNCHANGED <<pc, argc, fp, input, pos, n,
                                              capacity, objs, objsPtr,
                                              valsPtr, cells, i, bt_i, bt_k,
                                              out, err, exitCode, fault>>
                   ELSE IF ~(ValidVals(cur) /\ ValidVals(excl)
                                /\ ValidVals(incl))
                          THEN Undefined("vals")
                        \* vals[...] + v is an int addition
                        ELSE IF ~InInt(vals[incl] + v)
                          THEN Undefined("overflow")
                          ELSE /\ vals' = [vals EXCEPT ![cur] =
                                              Best(vals[excl], vals[incl] + v)]
                               /\ k' = k + 1
                               /\ UNCHANGED <<pc, argc, fp, input, pos, n,
                                              capacity, objs, objsPtr,
                                              valsPtr, cells, i, bt_i, bt_k,
                                              out, err, exitCode, fault>>

\* k <= c fails: next i
FillNextRow ==
    /\ pc = "fill"
    /\ SizeLe(i, n)
    /\ ~SizeLe(k, capacity)
    /\ i' = i + 1
    /\ k' = 0
    /\ UNCHANGED <<pc, argc, fp, input, pos, n, capacity, objs, objsPtr,
                   vals, valsPtr, cells, bt_i, bt_k, out, err, exitCode,
                   fault>>

\* i <= n fails: dp_backtrace(n, c, objs, vals) is entered with k = c, i = n
FillDone ==
    /\ pc = "fill"
    /\ ~SizeLe(i, n)
    /\ bt_k' = capacity
    /\ bt_i' = n
    /\ pc' = "backtrace"
    /\ UNCHANGED <<argc, fp, input, pos, n, capacity, objs, objsPtr, vals,
                   valsPtr, cells, i, k, out, err, exitCode, fault>>

----------------------------------------------------------------------------
(* dp_backtrace *)

IncludedMut(cur, prev) == cur >= prev

\* vals[i*(c+1) + k] != vals[(i-1)*(c+1) + k]
Included(cur, prev) == cur # prev

BtWeightMut(o, ii) == o[(ii - 1) * 3]

\* objs[(i-1)*3 + 1], the weight the cursor is decremented by
BtWeight(o, ii) == o[(ii - 1) * 3 + 1]

BtStep ==
    /\ pc = "backtrace"
    /\ bt_i > 0
    /\ LET cur == Index(bt_i, capacity, bt_k)
           prev == Index(bt_i - 1, capacity, bt_k)
       IN IF ~(ValidVals(cur) /\ ValidVals(prev))
            THEN Undefined("vals")
            ELSE /\ IF Included(vals[cur], vals[prev])
                      THEN /\ objs' = [objs EXCEPT ![(bt_i - 1) * 3 + 2] = 1]
                           /\ bt_k' = bt_k - BtWeight(objs, bt_i)
                      ELSE UNCHANGED <<objs, bt_k>>
                 /\ bt_i' = bt_i - 1
                 /\ UNCHANGED <<pc, argc, fp, input, pos, n, capacity,
                                objsPtr, vals, valsPtr, cells, i, k, out,
                                err, exitCode, fault>>

BtDone ==
    /\ pc = "backtrace"
    /\ bt_i = 0
    /\ pc' = "print"
    /\ UNCHANGED <<argc, fp, input, pos, n, capacity, objs, objsPtr, vals,
                   valsPtr, cells, i, k, bt_i, bt_k, out, err, exitCode,
                   fault>>

----------------------------------------------------------------------------
(* dp_print and the way out *)

Flags(o, nn) == [j \in 1..nn |-> IF o[(j - 1) * 3 + 2] = 1 THEN 1 ELSE 0]

\* dp_print(n, vals[n*(c+1) + c], 1, objs)
DpPrint ==
    /\ pc = "print"
    /\ LET top == Index(n, capacity, capacity)
       IN IF ~ValidVals(top)
            THEN Undefined("vals")
            ELSE /\ out' = <<vals[top], 1, Flags(objs, n)>>
                 /\ pc' = "free"
                 /\ UNCHANGED <<argc, fp, input, pos, n, capacity, objs,
                                objsPtr, vals, valsPtr, cells, i, k, bt_i,
                                bt_k, err, exitCode, fault>>

\* free(vals); back in main free(objs); main returns 0
Free ==
    /\ pc = "free"
    /\ valsPtr' = "freed"
    /\ objsPtr' = "freed"
    /\ exitCode' = 0
    /\ pc' = "done"
    /\ UNCHANGED <<argc, fp, input, pos, n, capacity, objs, vals, cells,
                   i, k, bt_i, bt_k, out, err, fault>>

----------------------------------------------------------------------------

Next ==
    \/ Main
    \/ Fopen
    \/ ScanHeader
    \/ AllocObjs
    \/ LoadItem
    \/ LoadDone
    \/ DpAlloc
    \/ FillCell
    \/ FillNextRow
    \/ FillDone
    \/ BtStep
    \/ BtDone
    \/ DpPrint
    \/ Free

Spec == Init /\ [][Next]_vars

\* dp_knapsack alone, entered with every n and c for which main's n * 3
\* is representable; the file holds the header only, so every object is
\* (0, 0) as calloc left it.
InitAlloc ==
    /\ pc = "dp_knapsack"
    /\ argc = 2
    /\ fp = "closed"
    /\ n \in 0..(INT_MAX \div 3)
    /\ capacity \in 0..INT_MAX
    /\ input = <<Tok(n), Tok(capacity)>>
    /\ pos = 3
    /\ objs = Zeros(n * 3)
    /\ objsPtr = "heap"
    /\ vals = <<>>
    /\ valsPtr = "unset"
    /\ cells = 0
    /\ i = n
    /\ k = 0
    /\ bt_i = 0
    /\ bt_k = 0
    /\ out = <<>>
    /\ err = FALSE
    /\ exitCode = 0
    /\ fault = "none"

SpecAlloc == InitAlloc /\ [][DpAlloc]_vars

----------------------------------------------------------------------------
(* Vocabulary of the properties *)

Value(j) == objs[(j - 1) * 3]
Weight(j) == objs[(j - 1) * 3 + 1]
Selected(j) == objs[(j - 1) * 3 + 2] = 1

\* table[p][kk]
T(p, kk) == vals[Index(p, capacity, kk)]

RECURSIVE SumV(_)
SumV(S) == IF S = {} THEN 0
           ELSE LET j == CHOOSE x \in S : TRUE
                IN Value(j) + SumV(S \ {j})

RECURSIVE SumW(_)
SumW(S) == IF S = {} THEN 0
           ELSE LET j == CHOOSE x \in S : TRUE
                IN Weight(j) + SumW(S \ {j})

Max(S) == CHOOSE x \in S : \A y \in S : y <= x

\* the best total value of a subset of the first p objects that weighs at
\* most kk, by enumeration of all subsets
BruteForce(p, kk) ==
    Max({ SumV(S) : S \in { X \in SUBSET (1..p) : SumW(X) <= kk } })

\* the objects are loaded, and all values, weights, n and c are >= 0
NonNegItems ==
    /\ n >= 0
    /\ capacity >= 0
    /\ objsPtr = "heap" \/ n = 0
    /\ \A j \in 1..n : Value(j) >= 0 /\ Weight(j) >= 0

\* dp_knapsack has filled the whole table and not yet freed it
TableBuilt ==
    /\ pc \in {"backtrace", "print", "free"}
    /\ valsPtr = "heap"
    /\ NonNegItems

BacktraceDone ==
    /\ pc \in {"print", "free"}
    /\ valsPtr = "heap"
    /\ NonNegItems

SelectedSet == { j \in 1..n : Selected(j) }

InDp == pc \in {"dp_knapsack", "fill", "backtrace", "print", "free"}

----------------------------------------------------------------------------
(* C1: for non-negative items and C >= 0 the value dp_knapsack reports,   *)
(* table[N][C], is the maximum total value over all subsets of the N      *)
(* objects whose total weight is at most C.                                *)
C1_OptimalValue ==
    /\ TableBuilt => T(n, capacity) = BruteForce(n, capacity)
    /\ (pc = "free" /\ BacktraceDone) => out[1] = BruteForce(n, capacity)

\* the capacity binds: the optimum is positive and below the total value
C1_Witness ==
    /\ pc = "free"
    /\ BacktraceDone
    /\ n = MaxN
    /\ out[1] > 0
    /\ out[1] < SumV(1..n)
    /\ \A j \in 1..n : Weight(j) <= capacity

(* C2: when dp_backtrace has finished on a table built from non-negative  *)
(* items, the selected objects weigh at most C in total and their total   *)
(* value is exactly table[N][C].                                           *)
C2_SelectionFeasibleAndOptimal ==
    BacktraceDone =>
        /\ SumW(SelectedSet) <= capacity
        /\ SumV(SelectedSet) = T(n, capacity)

\* some object is selected and some object of positive value is left out
C2_Witness ==
    /\ BacktraceDone
    /\ SelectedSet # {}
    /\ \E j \in 1..n : ~Selected(j) /\ Value(j) > 0 /\ Weight(j) <= capacity
    /\ SumW(SelectedSet) = capacity

(* C3: in a table built from non-negative items, table[p][k] <=           *)
(* table[p][k+1] for p in 0..N, k in 0..C-1, and table[p][k] <=           *)
(* table[p+1][k] for p in 0..N-1, k in 0..C.                               *)
C3_Monotone ==
    TableBuilt =>
        /\ \A p \in 0..n : \A kk \in 0..(capacity - 1) :
              T(p, kk) <= T(p, kk + 1)
        /\ \A p \in 0..(n - 1) : \A kk \in 0..capacity :
              T(p, kk) <= T(p + 1, kk)

\* a table that strictly grows in both directions, and stays equal somewhere
C3_Witness ==
    /\ TableBuilt
    /\ \E p \in 1..n : \E kk \in 0..(capacity - 1) : T(p, kk) < T(p, kk + 1)
    /\ \E p \in 1..(n - 1) : \E kk \in 0..capacity : T(p, kk) < T(p + 1, kk)
    /\ \E p \in 1..(n - 1) : \E kk \in 1..capacity : T(p, kk) = T(p + 1, kk)

(* C4: started without a readable input source (no argument, a wrong      *)
(* number of arguments, or a file that cannot be opened) the program      *)
(* reports the condition and ends with a non-zero exit status, having     *)
(* built no table and printed no solution.                                 *)
C4_NoInputIsReportedFailure ==
    (argc # 2 \/ fp = "null") =>
        /\ valsPtr = "unset"
        /\ out = <<>>
        /\ pc = "done" => (err /\ exitCode # 0)

(* C5: if the item count, the capacity or any value or weight of the      *)
(* input is missing, non-numeric or negative, the program reports it and  *)
(* stops before the table is built: dp_knapsack is never entered.         *)
C5_MalformedInputNeverReachesDp ==
    (fp \in {"open", "closed"} /\ ~WellFormed(input)) =>
        /\ ~InDp
        /\ pc \notin {"crashed", "undefined"}
        /\ pc = "done" => (err /\ exitCode # 0)

\* the total value of the weight-0 objects among the first p
ZeroWeightValue(p) == SumV({ j \in 1..p : Weight(j) = 0 })

AllCellsZero == \A p \in 0..n : \A kk \in 0..capacity : T(p, kk) = 0

(* C6 as stated: for C = 0 and non-negative items, weight 0 included,     *)
(* every cell of the table is 0; for N = 0 and every C >= 0 every cell is *)
(* 0 and no object is selected.                                            *)
C6_ZeroCapacityAllZero ==
    TableBuilt =>
        /\ capacity = 0 => AllCellsZero
        /\ n = 0 => (AllCellsZero /\ SelectedSet = {})

(* C6 amended: for C = 0 and non-negative items, table[p][0] is the total *)
(* value of the weight-0 objects among the first p, so every cell is 0    *)
(* when no weight-0 object has a positive value; for N = 0 and every      *)
(* C >= 0 every cell is 0 and no object is selected.                       *)
C6_ZeroCapacityZeroWeightOnly ==
    TableBuilt =>
        /\ capacity = 0 => \A p \in 0..n : T(p, 0) = ZeroWeightValue(p)
        /\ (capacity = 0 /\ \A j \in 1..n : Weight(j) > 0 \/ Value(j) = 0)
              => AllCellsZero
        /\ n = 0 => (AllCellsZero /\ SelectedSet = {})
        /\ (n = 0 /\ pc = "free") => out = <<0, 1, <<>>>>

\* C = 0 with a weight-0 object of positive value and a heavier one
C6_Witness ==
    /\ TableBuilt
    /\ capacity = 0
    /\ \E j \in 1..n : Weight(j) = 0 /\ Value(j) > 0
    /\ \E j \in 1..n : Weight(j) > 0 /\ Value(j) > 0
    /\ T(n, 0) > 0

NoneSelected == \A j \in DOMAIN objs : j % 3 = 2 => objs[j] = 0

(* C7: if the allocation of the (N+1) x (C+1) table fails, the solve ends *)
(* in a reported fatal outcome: no table cell is read or written, no      *)
(* selected flag changes and no solution is printed.                       *)
C7_AllocFailureIsReportedFatal ==
    (valsPtr = "null" /\ cells > 0) =>
        /\ fault = "none"
        /\ pc \notin {"crashed", "undefined"}
        /\ NoneSelected
        /\ out = <<>>
        /\ pc = "done" => (err /\ exitCode # 0)

(* C8: at every step of dp_backtrace on a table built from non-negative   *)
(* items the cursor k is in 0..C, every table index read is in range, and *)
(* an object that is about to be marked weighs at most k, so the cursor   *)
(* stays >= 0 after the decrement.                                         *)
C8_CursorInRange ==
    (pc = "backtrace" /\ valsPtr = "heap" /\ NonNegItems) =>
        /\ bt_i \in 0..n
        /\ bt_k \in 0..capacity
        /\ bt_i > 0 =>
              /\ ValidVals(Index(bt_i, capacity, bt_k))
              /\ ValidVals(Index(bt_i - 1, capacity, bt_k))
              /\ T(bt_i, bt_k) # T(bt_i - 1, bt_k) => Weight(bt_i) <= bt_k

\* an earlier object moved the cursor and the next one fills it exactly
C8_Witness ==
    /\ pc = "backtrace"
    /\ valsPtr = "heap"
    /\ NonNegItems
    /\ bt_i > 0
    /\ bt_k > 0
    /\ bt_k < capacity
    /\ T(bt_i, bt_k) # T(bt_i - 1, bt_k)
    /\ Weight(bt_i) = bt_k

\* including object bt_i at cursor bt_k strictly beats leaving it out
StrictGain ==
    /\ Weight(bt_i) <= bt_k
    /\ T(bt_i - 1, bt_k - Weight(bt_i)) + Value(bt_i) > T(bt_i - 1, bt_k)

(* C9: at backtrace step i with cursor k, object i-1 is marked selected   *)
(* iff its weight w <= k and table[i-1][k-w] + value > table[i-1][k]; on  *)
(* a tie it stays unselected and the cursor does not move, so an object   *)
(* of value 0 is never selected.                                           *)
C9_SelectedIffStrictGain ==
    [][(pc = "backtrace" /\ bt_i > 0 /\ valsPtr = "heap" /\ NonNegItems) =>
          /\ (objs'[(bt_i - 1) * 3 + 2] = 1) <=> StrictGain
          /\ StrictGain => bt_k' = bt_k - Weight(bt_i)
          /\ ~StrictGain => bt_k' = bt_k
          /\ Value(bt_i) = 0 => objs'[(bt_i - 1) * 3 + 2] = 0
          /\ bt_i' = bt_i - 1]_vars

\* a tie: the object fits, is worth something, and including it gives
\* exactly the value of leaving it out
C9_Witness ==
    /\ pc = "backtrace"
    /\ bt_i > 0
    /\ valsPtr = "heap"
    /\ NonNegItems
    /\ Value(bt_i) > 0
    /\ Weight(bt_i) <= bt_k
    /\ T(bt_i - 1, bt_k - Weight(bt_i)) + Value(bt_i) = T(bt_i - 1, bt_k)

(* C10: for all N >= 0 and C >= 0 that fit an IntBits-bit int, the cell   *)
(* count dp_knapsack computes in int arithmetic is the product            *)
(* (N+1)*(C+1), so every index i*(c+1)+k with 0 <= i <= N, 0 <= k <= C    *)
(* lies below the number of cells allocated.                               *)
C10_CellCountIsExact ==
    (pc = "fill" /\ n >= 0 /\ capacity >= 0) =>
        /\ cells = (n + 1) * (capacity + 1)
        /\ \A ii \in 0..n : \A kk \in 0..capacity :
              Index(ii, capacity, kk) < cells

====
